---- MODULE Spec2Model ----
(***************************************************************************)
(* SocketWrapper of napi-nbng: the session object over an nng socket and   *)
(* the receive loop threads it spawns.  Two builds of the wrapper are in   *)
(* the repository: src/nanomsg.rs (timeouts, url, receiving / is_closing   *)
(* flags) and src/back.rs (the earlier wrapper, socket only).              *)
(*                                                                         *)
(* The JavaScript caller is one thread: connect, send, recv and close run  *)
(* one after another on it (mpc is its position).  Every recv() spawns a   *)
(* thread of its own; the steps of these threads interleave freely with    *)
(* the caller's steps, each step holding at most one access to shared      *)
(* state (an atomic flag or the transport).                                *)
(***************************************************************************)
EXTENDS Integers, Sequences, FiniteSets, TLC

\* ---------------------------------------------------------------- bounds
MaxCalls == 4          \* calls the caller makes on the session over a run
MaxMsgs  == 2          \* messages the peers put on the wire over a run

\* Option::None of socket / url
None == 0

Handles  == 1..MaxCalls        \* a connect() creates at most one socket
Loops    == 1..MaxCalls        \* a recv() spawns one thread
Payloads == {1, 2}            \* message bodies given to send() (opaque bytes)
Urls     == {1}               \* dial addresses
Timeouts == {0, 1000}         \* recv_timeout / send_timeout arguments (ms)
Builds   == {"nanomsg", "back"}

VARIABLES
    build,        \* which wrapper is compiled in
    \* --- SocketWrapper fields
    socket,       \* Option<Socket>: None or a handle
    url,          \* Option<String>
    receiving,    \* Arc<AtomicBool>
    is_closing,   \* Arc<AtomicBool>
    \* --- the transport (nng), one entry per socket ever created
    hstate,       \* "free" (not created yet) | "open" | "closed"
    hdialed,      \* dial succeeded on it
    hrto,         \* a receive timeout was set on it
    hqueue,       \* messages arrived and not yet received
    nsent,        \* messages the peers have put on the wire so far
    \* --- the caller's thread
    ncalls,       \* calls made so far
    mpc,          \* "idle" or the position inside send() / close()
    mloc,         \* close(): the socket taken out of self.socket
    mecho,        \* send(): the peer answers the request of this call with the same bytes
    ret,          \* what the last call returned ("pending" while it runs)
    io,           \* send / recv calls on the transport made by the current / last call
    \* --- the threads spawned by recv()
    lpc,          \* "none" | "spawned" | "check" | "recv" | "got" | "done"
    lsock,        \* the Option<Socket> clone moved into the thread
    lres,         \* the socket.recv() result being matched (kept if the match returns)
    \* --- what the thread has done so far
    got,          \* payloads its socket.recv() calls returned with Ok
    cb,           \* calls it made to the callback, in order
    lclosed,      \* while it runs: a close() has returned since the recv() that spawned it
    lafter        \* while it runs: callback calls it made while lclosed (counted up to 2)

session  == <<socket, url, receiving, is_closing>>
wire     == <<hstate, hdialed, hrto, hqueue, nsent>>
caller   == <<ncalls, mpc, mloc, mecho, ret, io>>
threads  == <<lpc, lsock, lres, got, cb, lclosed, lafter>>
vars     == <<build, socket, url, receiving, is_closing, hstate, hdialed, hrto,
              hqueue, nsent, ncalls, mpc, mloc, mecho, ret, io, lpc, lsock, lres, got, cb,
              lclosed, lafter>>

Ret(op, val, data) == [op |-> op, val |-> val, data |-> data]

\* ------------------------------------------------------------- transport
Live == {"spawned", "check", "recv", "got"}

\* A thread owns its clone from recv() until its closure returns.
Holds(l, pcs, h) == lsock[l] = h /\ pcs[l] \in Live

\* Mutant: the clones held by the threads do not keep a socket open.
Dropped_unshared(sock, loc, pcs) ==
    {h \in Handles : hstate[h] = "open" /\ sock # h /\ loc # h}

\* nng::Socket is reference counted: the underlying socket is closed when
\* its last clone is dropped.  The open sockets nobody holds any more, with
\* sock in self.socket, loc in close()'s local and the threads at pcs:
Dropped(sock, loc, pcs) ==
    {h \in Handles : /\ hstate[h] = "open" /\ sock # h /\ loc # h
                     /\ ~ \E l \in Loops : Holds(l, pcs, h)}

\* f with the entries of the sockets hs set to v
Wipe(f, hs, v) == [h \in Handles |-> IF h \in hs THEN v ELSE f[h]]

\* Closing the sockets hs: a closed socket keeps neither its options nor
\* the messages waiting on it.
CloseSockets(hs) ==
    /\ hstate' = Wipe(hstate, hs, "closed")
    /\ hrto' = Wipe(hrto, hs, FALSE)
    /\ hqueue' = Wipe(hqueue, hs, <<>>)

\* The results a blocking socket.recv() on handle h can return now.
\* A closed socket fails with Closed; an open one returns the oldest message,
\* times out when nothing arrived within its receive timeout, or fails with
\* some other transport error.  With nothing to return the call blocks.
RecvOutcomes(h) ==
    IF hstate[h] # "open" THEN {"closed"}
    ELSE {"other"}
         \cup (IF hqueue[h] # <<>> THEN {"ok"} ELSE {})
         \cup (IF hqueue[h] = <<>> /\ hrto[h] THEN {"timeout"} ELSE {})

\* The queue of h after a receive with the given result.
AfterRecv(h, r) == IF r = "ok" THEN [hqueue EXCEPT ![h] = Tail(@)] ELSE hqueue

FreeHandles == {h \in Handles : hstate[h] = "free"}
NewHandle   == CHOOSE h \in FreeHandles : \A g \in FreeHandles : h <= g

\* The peer of a dialed socket sends a message of its own; the peers number
\* the messages they send (the body of the n-th is n).
peer_send(h) ==
    /\ hstate[h] = "open" /\ hdialed[h]
    /\ nsent < MaxMsgs
    /\ hqueue' = [hqueue EXCEPT ![h] = Append(@, nsent + 1)]
    /\ nsent' = nsent + 1
    /\ UNCHANGED <<build, session, hstate, hdialed, hrto, caller, threads>>

\* The caller starts a call: it is in no call, and has calls left.
Enter ==
    /\ mpc = "idle"
    /\ ncalls < MaxCalls
    /\ ncalls' = ncalls + 1

\* ------------------------------------------------------------------ new
Init ==
    /\ build \in Builds
    /\ socket = None
    /\ url = None
    /\ receiving = FALSE
    /\ is_closing = FALSE
    /\ hstate = [h \in Handles |-> "free"]
    /\ hdialed = [h \in Handles |-> FALSE]
    /\ hrto = [h \in Handles |-> FALSE]
    /\ hqueue = [h \in Handles |-> <<>>]
    /\ nsent = 0
    /\ ncalls = 0
    /\ mpc = "idle"
    /\ mloc = None
    /\ mecho = FALSE
    /\ ret = Ret("new", "ok", 0)
    /\ io = <<>>
    /\ lpc = [l \in Loops |-> "none"]
    /\ lsock = [l \in Loops |-> None]
    /\ lres = [l \in Loops |-> "none"]
    /\ got = [l \in Loops |-> <<>>]
    /\ cb = [l \in Loops |-> <<>>]
    /\ lclosed = [l \in Loops |-> FALSE]
    /\ lafter = [l \in Loops |-> 0]

\* -------------------------------------------------- nanomsg.rs: connect
\* o is what the transport does: "create_failed" (Socket::new), "recv_opt_failed"
\* and "send_opt_failed" (set_opt, called only for a non-zero timeout),
\* "dial_failed" (dial) or "ok".  Every failure returns early through `?`;
\* the socket created for the attempt is a local that nobody else ever saw
\* and is dropped on the way out.  On success the new socket replaces
\* self.socket, which drops the session's clone of the old one.
\* Mutant: the url is recorded before the dial, so a failed dial leaves it set.
connect_url_first(u, recv_timeout, send_timeout, o) ==
    /\ build = "nanomsg"
    /\ Enter
    /\ o = "recv_opt_failed" => recv_timeout # 0
    /\ o = "send_opt_failed" => send_timeout # 0
    /\ IF o = "ok"
       THEN /\ FreeHandles # {}
            /\ LET old == Dropped(NewHandle, mloc, lpc) IN
               /\ hstate' = [Wipe(hstate, old, "closed") EXCEPT ![NewHandle] = "open"]
               /\ hrto' = [Wipe(hrto, old, FALSE) EXCEPT ![NewHandle] = (recv_timeout # 0)]
               /\ hqueue' = Wipe(hqueue, old, <<>>)
            /\ hdialed' = [hdialed EXCEPT ![NewHandle] = TRUE]
            /\ socket' = NewHandle
            /\ url' = u
       ELSE /\ url' = IF o = "dial_failed" THEN u ELSE url
            /\ UNCHANGED <<socket, hstate, hdialed, hrto, hqueue>>
    /\ ret' = Ret("connect", IF o = "ok" THEN "ok" ELSE "err", 0)
    /\ io' = <<>>
    /\ UNCHANGED <<build, receiving, is_closing, nsent, mpc, mloc, mecho, threads>>

\* Mutant: the socket is stored before the dial, so a failed dial leaves a
\* socket that never connected in self.socket.
connect_store_first(u, recv_timeout, send_timeout, o) ==
    /\ build = "nanomsg"
    /\ Enter
    /\ o = "recv_opt_failed" => recv_timeout # 0
    /\ o = "send_opt_failed" => send_timeout # 0
    /\ IF o \in {"ok", "dial_failed"}
       THEN /\ FreeHandles # {}
            /\ LET old == Dropped(NewHandle, mloc, lpc) IN
               /\ hstate' = [Wipe(hstate, old, "closed") EXCEPT ![NewHandle] = "open"]
               /\ hrto' = [Wipe(hrto, old, FALSE) EXCEPT ![NewHandle] = (recv_timeout # 0)]
               /\ hqueue' = Wipe(hqueue, old, <<>>)
            /\ hdialed' = [hdialed EXCEPT ![NewHandle] = (o = "ok")]
            /\ socket' = NewHandle
            /\ url' = IF o = "ok" THEN u ELSE url
       ELSE UNCHANGED <<socket, url, hstate, hdialed, hrto, hqueue>>
    /\ ret' = Ret("connect", IF o = "ok" THEN "ok" ELSE "err", 0)
    /\ io' = <<>>
    /\ UNCHANGED <<build, receiving, is_closing, nsent, mpc, mloc, mecho, threads>>

\* Mutant: a successful connect() starts the session afresh and clears is_closing.
connect_reset_closing(u, recv_timeout, send_timeout, o) ==
    /\ build = "nanomsg"
    /\ Enter
    /\ o = "recv_opt_failed" => recv_timeout # 0
    /\ o = "send_opt_failed" => send_timeout # 0
    /\ IF o = "ok"
       THEN /\ FreeHandles # {}
            /\ LET old == Dropped(NewHandle, mloc, lpc) IN
               /\ hstate' = [Wipe(hstate, old, "closed") EXCEPT ![NewHandle] = "open"]
               /\ hrto' = [Wipe(hrto, old, FALSE) EXCEPT ![NewHandle] = (recv_timeout # 0)]
               /\ hqueue' = Wipe(hqueue, old, <<>>)
            /\ hdialed' = [hdialed EXCEPT ![NewHandle] = TRUE]
            /\ socket' = NewHandle
            /\ url' = u
            /\ is_closing' = FALSE
       ELSE UNCHANGED <<socket, url, is_closing, hstate, hdialed, hrto, hqueue>>
    /\ ret' = Ret("connect", IF o = "ok" THEN "ok" ELSE "err", 0)
    /\ io' = <<>>
    /\ UNCHANGED <<build, receiving, nsent, mpc, mloc, mecho, threads>>

connect(u, recv_timeout, send_timeout, o) ==
    /\ build = "nanomsg"
    /\ Enter
    /\ o = "recv_opt_failed" => recv_timeout # 0
    /\ o = "send_opt_failed" => send_timeout # 0
    /\ IF o = "ok"
       THEN /\ FreeHandles # {}
            /\ LET old == Dropped(NewHandle, mloc, lpc) IN
               /\ hstate' = [Wipe(hstate, old, "closed") EXCEPT ![NewHandle] = "open"]
               /\ hrto' = [Wipe(hrto, old, FALSE) EXCEPT ![NewHandle] = (recv_timeout # 0)]
               /\ hqueue' = Wipe(hqueue, old, <<>>)
            /\ hdialed' = [hdialed EXCEPT ![NewHandle] = TRUE]
            /\ socket' = NewHandle
            /\ url' = u
       ELSE UNCHANGED <<socket, url, hstate, hdialed, hrto, hqueue>>
    /\ ret' = Ret("connect", IF o = "ok" THEN "ok" ELSE "err", 0)
    /\ io' = <<>>
    /\ UNCHANGED <<build, receiving, is_closing, nsent, mpc, mloc, mecho, threads>>

\* ----------------------------------------------------- nanomsg.rs: send
\* First half: the connected test and socket.send(msg).  o is the result of
\* the submission; echo tells whether the peer answers it with the same bytes.
\* Mutant: no connected test; the submission is attempted and fails.
send_untested(p, o, echo) ==
    /\ build = "nanomsg"
    /\ Enter
    /\ IF socket = None
       THEN /\ o = "failed" /\ ~echo
            /\ io' = <<"send">>
            /\ ret' = Ret("send", "Send error", 0)
            /\ UNCHANGED <<mpc, hqueue, nsent>>
       ELSE /\ io' = <<"send">>
            /\ o = "ok" => hstate[socket] = "open"
            /\ echo => o = "ok" /\ nsent < MaxMsgs
            /\ IF o = "ok"
               THEN /\ mpc' = "send_recv"
                    /\ ret' = Ret("send", "pending", p)
               ELSE /\ mpc' = "idle"
                    /\ ret' = Ret("send", "Send error", 0)
            /\ hqueue' = IF echo THEN [hqueue EXCEPT ![socket] = Append(@, p)] ELSE hqueue
            /\ nsent' = IF echo THEN nsent + 1 ELSE nsent
    /\ mecho' = echo
    /\ UNCHANGED <<build, session, hstate, hdialed, hrto, mloc, threads>>

send(p, o, echo) ==
    /\ build = "nanomsg"
    /\ Enter
    /\ IF socket = None
       THEN /\ o = "failed" /\ ~echo
            /\ io' = <<>>
            /\ ret' = Ret("send", "Socket not connected", 0)
            /\ UNCHANGED <<mpc, hqueue, nsent>>
       ELSE /\ io' = <<"send">>
            /\ o = "ok" => hstate[socket] = "open"
            /\ echo => o = "ok" /\ nsent < MaxMsgs
            /\ IF o = "ok"
               THEN /\ mpc' = "send_recv"
                    /\ ret' = Ret("send", "pending", p)
               ELSE /\ mpc' = "idle"
                    /\ ret' = Ret("send", "Send error", 0)
            /\ hqueue' = IF echo THEN [hqueue EXCEPT ![socket] = Append(@, p)] ELSE hqueue
            /\ nsent' = IF echo THEN nsent + 1 ELSE nsent
    /\ mecho' = echo
    /\ UNCHANGED <<build, session, hstate, hdialed, hrto, mloc, threads>>

\* Mutant: a failed reply receive drops the session's socket.
send_recv_disconnects(o) ==
    /\ build = "nanomsg"
    /\ mpc = "send_recv"
    /\ o \in RecvOutcomes(socket)
    /\ io' = Append(io, "recv")
    /\ hqueue' = AfterRecv(socket, o)
    /\ ret' = CASE o = "ok"      -> Ret("send", "ok", Head(hqueue[socket]))
                [] o = "timeout" -> Ret("send", "Receive timeout", 0)
                [] OTHER         -> Ret("send", "Receive error", 0)
    /\ socket' = IF o = "ok" THEN socket ELSE None
    /\ mpc' = "idle"
    /\ mecho' = FALSE
    /\ UNCHANGED <<build, url, receiving, is_closing, hstate, hdialed, hrto, nsent,
                   ncalls, mloc, threads>>

\* Second half: the blocking socket.recv() for the reply, and the return.
send_recv(o) ==
    /\ build = "nanomsg"
    /\ mpc = "send_recv"
    /\ o \in RecvOutcomes(socket)
    /\ io' = Append(io, "recv")
    /\ hqueue' = AfterRecv(socket, o)
    /\ ret' = CASE o = "ok"      -> Ret("send", "ok", Head(hqueue[socket]))
                [] o = "timeout" -> Ret("send", "Receive timeout", 0)
                [] OTHER         -> Ret("send", "Receive error", 0)
    /\ mpc' = "idle"
    /\ mecho' = FALSE
    /\ UNCHANGED <<build, session, hstate, hdialed, hrto, nsent, ncalls, mloc, threads>>

\* ----------------------------------------------------- nanomsg.rs: recv
FreeLoops == {l \in Loops : lpc[l] = "none"}
NewLoop   == CHOOSE l \in FreeLoops : \A k \in FreeLoops : l <= k

\* The call itself: clone socket and the two flags, spawn the thread, Ok(()).
recv ==
    /\ build = "nanomsg"
    /\ Enter
    /\ FreeLoops # {}
    /\ lpc' = [lpc EXCEPT ![NewLoop] = "spawned"]
    /\ lsock' = [lsock EXCEPT ![NewLoop] = socket]
    /\ ret' = Ret("recv", "ok", 0)
    /\ io' = <<>>
    /\ UNCHANGED <<build, session, wire, mpc, mloc, mecho, lres, got, cb, lclosed, lafter>>

\* The end of thread l: its closure returns, its socket clone is dropped
\* (which closes the socket if that was the last clone).
Exit(l) ==
    /\ lpc' = [lpc EXCEPT ![l] = "done"]
    /\ lsock' = [lsock EXCEPT ![l] = None]
    /\ CloseSockets(Dropped(socket, mloc, [lpc EXCEPT ![l] = "done"]))
    /\ lclosed' = [lclosed EXCEPT ![l] = FALSE]
    /\ lafter' = [lafter EXCEPT ![l] = 0]
    /\ UNCHANGED <<got, cb>>

\* Thread l goes on to position pc.
Goto(l, pc) ==
    /\ lpc' = [lpc EXCEPT ![l] = pc]
    /\ UNCHANGED <<lsock, hstate, hrto, hqueue>>

\* The thread's first step: the Some test and receiving.store(true).
thread_start(l) ==
    /\ build = "nanomsg"
    /\ lpc[l] = "spawned"
    /\ IF lsock[l] # None
       THEN /\ receiving' = TRUE
            /\ Goto(l, "check")
            /\ UNCHANGED <<got, cb, lclosed, lafter>>
       ELSE /\ Exit(l)
            /\ UNCHANGED receiving
    /\ UNCHANGED <<build, socket, url, is_closing, hdialed, nsent, caller, lres>>

\* Top of the loop: receiving.load(); break when it is false.
loop_check(l) ==
    /\ build = "nanomsg"
    /\ lpc[l] = "check"
    /\ IF receiving
       THEN Goto(l, "recv") /\ UNCHANGED <<got, cb, lclosed, lafter>>
       ELSE Exit(l)
    /\ UNCHANGED <<build, session, hdialed, nsent, caller, lres>>

\* socket.recv() returns with result o.
loop_recv(l, o) ==
    /\ build = "nanomsg"
    /\ lpc[l] = "recv"
    /\ o \in RecvOutcomes(lsock[l])
    /\ lres' = [lres EXCEPT ![l] = o]
    /\ got' = IF o = "ok" THEN [got EXCEPT ![l] = Append(@, Head(hqueue[lsock[l]]))] ELSE got
    /\ hqueue' = AfterRecv(lsock[l], o)
    /\ lpc' = [lpc EXCEPT ![l] = "got"]
    /\ UNCHANGED <<build, session, hstate, hdialed, hrto, nsent, caller,
                   lsock, cb, lclosed, lafter>>

\* Mutant: the buffer handed over is the one built for the first message.
Call_stale(l, m) ==
    /\ cb' = [cb EXCEPT ![l] = Append(@, [ok |-> TRUE, data |-> got[l][1]])]
    /\ lafter' = [lafter EXCEPT ![l] = IF lclosed[l] /\ @ < 2 THEN @ + 1 ELSE @]
    /\ UNCHANGED <<got, lclosed>>

\* One call of the callback with Ok(buffer), as the bridge records it.
Call(l, m) ==
    /\ cb' = [cb EXCEPT ![l] = Append(@, [ok |-> TRUE, data |-> m])]
    /\ lafter' = [lafter EXCEPT ![l] = IF lclosed[l] /\ @ < 2 THEN @ + 1 ELSE @]
    /\ UNCHANGED <<got, lclosed>>

\* Mutant: an Err other than TimedOut is passed to the callback before the
\* is_closing test.
loop_match_report(l) ==
    /\ build = "nanomsg"
    /\ lpc[l] = "got"
    /\ CASE lres[l] = "ok" ->
              /\ Call(l, got[l][Len(got[l])])
              /\ Goto(l, "check")
              /\ lres' = [lres EXCEPT ![l] = "none"]
         [] lres[l] = "timeout" ->
              /\ Goto(l, "check")
              /\ lres' = [lres EXCEPT ![l] = "none"]
              /\ UNCHANGED <<got, cb, lclosed, lafter>>
         [] OTHER ->
              /\ cb' = [cb EXCEPT ![l] = Append(@, [ok |-> FALSE, data |-> 0])]
              /\ IF is_closing
                 THEN /\ lpc' = [lpc EXCEPT ![l] = "done"]
                      /\ lsock' = [lsock EXCEPT ![l] = None]
                      /\ CloseSockets(Dropped(socket, mloc, [lpc EXCEPT ![l] = "done"]))
                      /\ lclosed' = [lclosed EXCEPT ![l] = FALSE]
                      /\ lafter' = [lafter EXCEPT ![l] = 0]
                      /\ UNCHANGED <<got, lres>>
                 ELSE /\ Goto(l, "check")
                      /\ lres' = [lres EXCEPT ![l] = "none"]
                      /\ UNCHANGED <<got, lclosed, lafter>>
    /\ UNCHANGED <<build, session, hdialed, nsent, caller>>

\* Mutant: TimedOut is handled like the other errors (return if is_closing).
loop_match_timeout_fatal(l) ==
    /\ build = "nanomsg"
    /\ lpc[l] = "got"
    /\ CASE lres[l] = "ok" ->
              /\ Call(l, got[l][Len(got[l])])
              /\ Goto(l, "check")
              /\ lres' = [lres EXCEPT ![l] = "none"]
         [] OTHER ->
              IF is_closing
              THEN Exit(l) /\ UNCHANGED lres
              ELSE /\ Goto(l, "check")
                   /\ lres' = [lres EXCEPT ![l] = "none"]
                   /\ UNCHANGED <<got, cb, lclosed, lafter>>
    /\ UNCHANGED <<build, session, hdialed, nsent, caller>>

\* The match on the result: Ok -> callback.call(Ok(buffer), NonBlocking);
\* TimedOut -> log; any other Err -> return if is_closing.load(), else log.
loop_match(l) ==
    /\ build = "nanomsg"
    /\ lpc[l] = "got"
    /\ CASE lres[l] = "ok" ->
              /\ Call(l, got[l][Len(got[l])])
              /\ Goto(l, "check")
              /\ lres' = [lres EXCEPT ![l] = "none"]
         [] lres[l] = "timeout" ->
              /\ Goto(l, "check")
              /\ lres' = [lres EXCEPT ![l] = "none"]
              /\ UNCHANGED <<got, cb, lclosed, lafter>>
         [] OTHER ->
              IF is_closing
              THEN Exit(l) /\ UNCHANGED lres
              ELSE /\ Goto(l, "check")
                   /\ lres' = [lres EXCEPT ![l] = "none"]
                   /\ UNCHANGED <<got, cb, lclosed, lafter>>
    /\ UNCHANGED <<build, session, hdialed, nsent, caller>>

\* ---------------------------------------------------- nanomsg.rs: close
\* The running threads learn (in lclosed) that a close() has returned.
Returned == [l \in Loops |-> lclosed[l] \/ lpc[l] \in Live]

\* Mutant: the stop flag is cleared before the Some test.
close_flag_first ==
    /\ build = "nanomsg"
    /\ Enter
    /\ receiving' = FALSE
    /\ IF socket # None
       THEN /\ mloc' = socket
            /\ socket' = None
            /\ mpc' = "close_closing"
            /\ ret' = Ret("close", "pending", 0)
            /\ io' = <<>>
            /\ UNCHANGED lclosed
       ELSE /\ ret' = Ret("close", "already closed", 0)
            /\ io' = <<>>
            /\ lclosed' = Returned
            /\ UNCHANGED <<socket, mpc, mloc>>
    /\ UNCHANGED <<build, url, is_closing, wire, mecho, lpc, lsock, lres, got, cb, lafter>>

\* Mutant: the socket is closed as soon as it is taken, before is_closing is stored.
close_socket_first ==
    /\ build = "nanomsg"
    /\ Enter
    /\ IF socket # None
       THEN /\ mloc' = socket
            /\ socket' = None
            /\ receiving' = FALSE
            /\ CloseSockets({socket})
            /\ mpc' = "close_closing"
            /\ ret' = Ret("close", "pending", 0)
            /\ io' = <<>>
            /\ UNCHANGED lclosed
       ELSE /\ ret' = Ret("close", "already closed", 0)
            /\ io' = <<>>
            /\ lclosed' = Returned
            /\ UNCHANGED <<socket, receiving, mpc, mloc, hstate, hrto, hqueue>>
    /\ UNCHANGED <<build, url, is_closing, hdialed, nsent, mecho, lpc, lsock, lres,
                   got, cb, lafter>>

\* self.socket.take(); with Some: receiving.store(false).  With None the
\* call only logs and returns.
close ==
    /\ build = "nanomsg"
    /\ Enter
    /\ IF socket # None
       THEN /\ mloc' = socket
            /\ socket' = None
            /\ receiving' = FALSE
            /\ mpc' = "close_closing"
            /\ ret' = Ret("close", "pending", 0)
            /\ io' = <<>>
            /\ UNCHANGED lclosed
       ELSE /\ ret' = Ret("close", "already closed", 0)
            /\ io' = <<>>
            /\ lclosed' = Returned
            /\ UNCHANGED <<socket, receiving, mpc, mloc>>
    /\ UNCHANGED <<build, url, is_closing, wire, mecho, lpc, lsock, lres, got, cb, lafter>>

\* is_closing.store(true)
close_store_closing ==
    /\ build = "nanomsg"
    /\ mpc = "close_closing"
    /\ is_closing' = TRUE
    /\ mpc' = "close_socket"
    /\ UNCHANGED <<build, socket, url, receiving, wire, ncalls, mloc, mecho, ret, io, threads>>

\* socket.close(); self.url.take(); return.
close_socket ==
    /\ build = "nanomsg"
    /\ mpc = "close_socket"
    /\ CloseSockets({mloc})
    /\ url' = None
    /\ mloc' = None
    /\ mpc' = "idle"
    /\ ret' = Ret("close", "closed", 0)
    /\ io' = <<>>
    /\ lclosed' = Returned
    /\ UNCHANGED <<build, socket, receiving, is_closing, hdialed, nsent, ncalls,
                   mecho, lpc, lsock, lres, got, cb, lafter>>

\* ------------------------------------------------ nanomsg.rs: is_connect
is_connect == socket # None

\* ------------------------------------------------------------- back.rs
\* connect: Socket::new, dial, store.  No timeout is set and no url kept.
back_connect(u, o) ==
    /\ build = "back"
    /\ Enter
    /\ IF o = "ok"
       THEN /\ FreeHandles # {}
            /\ LET old == Dropped(NewHandle, mloc, lpc) IN
               /\ hstate' = [Wipe(hstate, old, "closed") EXCEPT ![NewHandle] = "open"]
               /\ hqueue' = Wipe(hqueue, old, <<>>)
            /\ hdialed' = [hdialed EXCEPT ![NewHandle] = TRUE]
            /\ socket' = NewHandle
       ELSE UNCHANGED <<socket, hstate, hdialed, hqueue>>
    /\ ret' = Ret("connect", IF o = "ok" THEN "ok" ELSE "err", 0)
    /\ io' = <<>>
    /\ UNCHANGED <<build, url, receiving, is_closing, hrto, nsent, mpc, mloc, mecho, threads>>

\* send, first half: the connected test and socket.send(msg).
back_send(p, o, echo) ==
    /\ build = "back"
    /\ Enter
    /\ IF socket = None
       THEN /\ o = "failed" /\ ~echo
            /\ io' = <<>>
            /\ ret' = Ret("send", "Socket not connected", 0)
            /\ UNCHANGED <<mpc, hqueue, nsent>>
       ELSE /\ io' = <<"send">>
            /\ o = "ok" => hstate[socket] = "open"
            /\ echo => o = "ok" /\ nsent < MaxMsgs
            /\ IF o = "ok"
               THEN /\ mpc' = "send_recv"
                    /\ ret' = Ret("send", "pending", p)
               ELSE /\ mpc' = "idle"
                    /\ ret' = Ret("send", "Send error", 0)
            /\ hqueue' = IF echo THEN [hqueue EXCEPT ![socket] = Append(@, p)] ELSE hqueue
            /\ nsent' = IF echo THEN nsent + 1 ELSE nsent
    /\ mecho' = echo
    /\ UNCHANGED <<build, session, hstate, hdialed, hrto, mloc, threads>>

\* send, second half: socket.recv() for the reply, and the return.
back_send_recv(o) ==
    /\ build = "back"
    /\ mpc = "send_recv"
    /\ o \in RecvOutcomes(socket)
    /\ io' = Append(io, "recv")
    /\ hqueue' = AfterRecv(socket, o)
    /\ ret' = IF o = "ok" THEN Ret("send", "ok", Head(hqueue[socket]))
                          ELSE Ret("send", "Receive error", 0)
    /\ mpc' = "idle"
    /\ mecho' = FALSE
    /\ UNCHANGED <<build, session, hstate, hdialed, hrto, nsent, ncalls, mloc, threads>>

\* recv: clone socket, spawn the thread, Ok(()).
back_recv ==
    /\ build = "back"
    /\ Enter
    /\ FreeLoops # {}
    /\ lpc' = [lpc EXCEPT ![NewLoop] = "spawned"]
    /\ lsock' = [lsock EXCEPT ![NewLoop] = socket]
    /\ ret' = Ret("recv", "ok", 0)
    /\ io' = <<>>
    /\ UNCHANGED <<build, session, wire, mpc, mloc, mecho, lres, got, cb, lclosed, lafter>>

\* The thread's first step: the Some test.
back_thread_start(l) ==
    /\ build = "back"
    /\ lpc[l] = "spawned"
    /\ IF lsock[l] # None
       THEN Goto(l, "recv") /\ UNCHANGED <<got, cb, lclosed, lafter>>
       ELSE Exit(l)
    /\ UNCHANGED <<build, session, hdialed, nsent, caller, lres>>

\* socket.recv() returns with result o.
back_loop_recv(l, o) ==
    /\ build = "back"
    /\ lpc[l] = "recv"
    /\ o \in RecvOutcomes(lsock[l])
    /\ lres' = [lres EXCEPT ![l] = o]
    /\ got' = IF o = "ok" THEN [got EXCEPT ![l] = Append(@, Head(hqueue[lsock[l]]))] ELSE got
    /\ hqueue' = AfterRecv(lsock[l], o)
    /\ lpc' = [lpc EXCEPT ![l] = "got"]
    /\ UNCHANGED <<build, session, hstate, hdialed, hrto, nsent, caller,
                   lsock, cb, lclosed, lafter>>

\* The match: Ok -> callback.call(Ok(buffer), NonBlocking); Err -> log.
\* Either way the loop goes round again: it has no exit.
back_loop_match(l) ==
    /\ build = "back"
    /\ lpc[l] = "got"
    /\ IF lres[l] = "ok"
       THEN Call(l, got[l][Len(got[l])])
       ELSE UNCHANGED <<got, cb, lclosed, lafter>>
    /\ Goto(l, "recv")
    /\ lres' = [lres EXCEPT ![l] = "none"]
    /\ UNCHANGED <<build, session, hdialed, nsent, caller>>

\* close: self.socket.take() and, with Some, socket.close().
back_close ==
    /\ build = "back"
    /\ Enter
    /\ CloseSockets(IF socket # None THEN {socket} ELSE {})
    /\ socket' = None
    /\ ret' = Ret("close", IF socket # None THEN "closed" ELSE "already closed", 0)
    /\ io' = <<>>
    /\ lclosed' = Returned
    /\ UNCHANGED <<build, url, receiving, is_closing, hdialed, nsent,
                   mpc, mloc, mecho, lpc, lsock, lres, got, cb, lafter>>

\* ---------------------------------------------------------------- system
ConnectOutcomes == {"create_failed", "recv_opt_failed", "send_opt_failed", "dial_failed", "ok"}
BackOutcomes    == {"create_failed", "dial_failed", "ok"}
RecvResults     == {"ok", "timeout", "closed", "other"}

Next ==
    \/ \E u \in Urls, rt \in Timeouts, st \in Timeouts, o \in ConnectOutcomes : connect(u, rt, st, o)
    \/ \E p \in Payloads, o \in {"ok", "failed"}, e \in BOOLEAN : send(p, o, e)
    \/ \E o \in RecvResults : send_recv(o)
    \/ recv
    \/ \E l \in Loops : thread_start(l)
    \/ \E l \in Loops : loop_check(l)
    \/ \E l \in Loops, o \in RecvResults : loop_recv(l, o)
    \/ \E l \in Loops : loop_match(l)
    \/ close
    \/ close_store_closing
    \/ close_socket
    \/ \E u \in Urls, o \in BackOutcomes : back_connect(u, o)
    \/ \E p \in Payloads, o \in {"ok", "failed"}, e \in BOOLEAN : back_send(p, o, e)
    \/ \E o \in RecvResults : back_send_recv(o)
    \/ back_recv
    \/ \E l \in Loops : back_thread_start(l)
    \/ \E l \in Loops, o \in RecvResults : back_loop_recv(l, o)
    \/ \E l \in Loops : back_loop_match(l)
    \/ back_close
    \/ \E h \in Handles : peer_send(h)

Spec == Init /\ [][Next]_vars

\* Scheduling: a spawned thread keeps running, its blocking socket.recv()
\* returns (with a message, a timeout or an error), and a call the caller has
\* entered runs to its return.
Fairness ==
    /\ \A l \in Loops :
          /\ WF_vars(thread_start(l))
          /\ WF_vars(loop_check(l))
          /\ WF_vars(\E o \in RecvResults : loop_recv(l, o))
          /\ WF_vars(loop_match(l))
    /\ WF_vars(\E o \in RecvResults : send_recv(o))
    /\ WF_vars(close_store_closing)
    /\ WF_vars(close_socket)

LiveSpec == Init /\ [][Next]_vars /\ Fairness

\* =================================================================== claims
\* What the callback of thread l was given, in order.
Delivered(l) == [i \in 1..Len(cb[l]) |-> cb[l][i].data]

\* Thread l holds a received message it has not passed on yet.
InHand(l) == lpc[l] = "got" /\ lres[l] = "ok"

\* C1: in nanomsg.rs, once close() on the session has returned, a receive
\* loop started before it invokes the callback at most one more time.
C1_AtMostOneCallbackAfterClose ==
    build = "nanomsg" => \A l \in Loops : lafter[l] <= 1

\* C2: the payloads passed to the callback of a loop are exactly the messages
\* its receive calls returned, in the same order, each once: nothing dropped,
\* duplicated, reordered or merged (the one in hand is delivered next).
C2_CallbackOrder ==
    \A l \in Loops :
        /\ \A i \in 1..Len(cb[l]) : cb[l][i].ok
        /\ Delivered(l) = IF InHand(l) THEN SubSeq(got[l], 1, Len(got[l]) - 1) ELSE got[l]

C2_Witness ==
    /\ build = "nanomsg"
    /\ \E l \in Loops : Len(cb[l]) >= 2 /\ cb[l][1].data # cb[l][2].data /\ ~InHand(l)

\* The step is the caller making call op (it returns, or for send() may
\* still wait for the reply, in the same step).
Called(op) == ncalls' = ncalls + 1 /\ ret'.op = op

\* C3: send() on a session that is not connected returns the not-connected
\* error, makes no transport send and no transport receive, and leaves the
\* session (and the transport) as they were.
C3_SendNotConnected ==
    [][ (Called("send") /\ ~is_connect) =>
            /\ ret' = Ret("send", "Socket not connected", 0)
            /\ io' = <<>>
            /\ mpc' = "idle"
            /\ UNCHANGED <<session, wire>> ]_vars

\* send() was refused on a session that had been connected and closed.
C3_Witness ==
    /\ ret = Ret("send", "Socket not connected", 0)
    /\ is_closing
    /\ ~is_connect

\* C4: after a successful connect() is_connect() is true; after close() it is
\* false; close() on a session that is closed or was never connected returns
\* without error and changes nothing of the session.
C4_ConnectCloseQuery ==
    /\ [](/\ (mpc = "idle" /\ ret = Ret("connect", "ok", 0)) => is_connect
          /\ ret.op = "close" => ~is_connect)
    /\ [][ (Called("close") /\ ~is_connect) =>
               /\ ret' = Ret("close", "already closed", 0)
               /\ mpc' = "idle"
               /\ UNCHANGED <<session, wire>> ]_vars

\* close() was called on a session that an earlier close() had closed.
C4_Witness ==
    /\ ret = Ret("close", "already closed", 0)
    /\ is_closing

\* C5: is_connect() is true only if the session holds a socket on which dial
\* succeeded and which no close() has closed; so not before a connect()
\* has succeeded.
C5_ConnectedImpliesDialed ==
    is_connect => /\ socket \in Handles
                  /\ hdialed[socket]
                  /\ hstate[socket] = "open"

\* connected again after a close()
C5_Witness ==
    /\ is_connect
    /\ is_closing

\* The step is a connect() call that fails.
ConnectFailed == Called("connect") /\ ret'.val = "err"

\* C6 as stated: after a failed connect() the session is not connected and
\* its handle, url and flags are what they were before the call.
C6_FailedConnectNotConnected ==
    [][ ConnectFailed => ~is_connect' /\ UNCHANGED session ]_vars

\* C6 amended: a failed connect() leaves handle, url and flags (and the
\* transport) exactly as they were: the session is connected after the call
\* if and only if it was before it.
C6_FailedConnectUnchanged ==
    [][ ConnectFailed => UNCHANGED <<session, wire>> /\ mpc' = "idle" ]_vars

\* connect() failed on a connected session
C6_Witness ==
    /\ ret = Ret("connect", "err", 0)
    /\ is_connect
    /\ url # None

\* The step is thread l finishing the match on the result of its receive.
Matched(l) == lpc[l] = "got" /\ lpc'[l] # "got"

\* In the step thread l calls the callback once more, with a failure.
ReportsFailure(l) ==
    /\ Len(cb'[l]) = Len(cb[l]) + 1
    /\ SubSeq(cb'[l], 1, Len(cb[l])) = cb[l]
    /\ ~cb'[l][Len(cb'[l])].ok

\* C7: a close() by the owner never reaches the callback as an error: a loop
\* whose receive failed (with an error other than a timeout) while the session
\* is marked closing exits without calling the callback, and no callback call
\* ever carries a failure.
C7_CloseNotReported ==
    /\ [](\A l \in Loops : \A i \in 1..Len(cb[l]) : cb[l][i].ok)
    /\ [][ \A l \in Loops :
             (Matched(l) /\ lres[l] \in {"closed", "other"} /\ is_closing) =>
                 lpc'[l] = "done" /\ cb'[l] = cb[l] ]_vars

\* a loop has left through the is_closing test after close() closed its socket
C7_Witness ==
    /\ build = "nanomsg"
    /\ is_closing
    /\ \E l \in Loops : lpc[l] = "done" /\ lres[l] = "closed"

\* C8 as stated: when a receive of a loop returns the Closed error, the loop
\* calls the callback exactly once, with a failure, and exits.
C8_ClosedReportedOnce ==
    [][ \A l \in Loops :
          (Matched(l) /\ lres[l] = "closed") =>
              lpc'[l] = "done" /\ ReportsFailure(l) ]_vars

\* C9 as stated (for nanomsg.rs): when a receive of a loop fails with an error
\* that is neither a timeout nor Closed and the session is not closing, the
\* loop calls the callback once with the failure and goes on receiving.
C9_ErrorReported ==
    [][ \A l \in Loops :
          (build = "nanomsg" /\ Matched(l) /\ lres[l] = "other" /\ ~is_closing) =>
              lpc'[l] \in {"check", "recv"} /\ ReportsFailure(l) ]_vars

\* C10: in nanomsg.rs a receive that times out makes the loop call nothing
\* and go back to the test of the stop flag; from that test the loop issues
\* the next receive if receiving is set and exits only if it is cleared.
C10_TimeoutNotFatal ==
    [][ \A l \in Loops : build = "nanomsg" =>
          /\ (Matched(l) /\ lres[l] = "timeout") =>
                 lpc'[l] = "check" /\ cb'[l] = cb[l]
          /\ (lpc[l] = "check" /\ lpc'[l] # "check") =>
                 lpc'[l] = (IF receiving THEN "recv" ELSE "done") ]_vars

\* a loop that has already delivered a message sees a receive time out
C10_Witness ==
    /\ build = "nanomsg"
    /\ \E l \in Loops : lpc[l] = "got" /\ lres[l] = "timeout" /\ Len(cb[l]) >= 1

\* C11 as stated: recv() on a session that is not connected returns an error
\* to the caller and starts nothing: no thread, no transport receive, no
\* callback call.
C11_RecvNotConnected ==
    [][ (Called("recv") /\ ~is_connect) =>
            /\ ret'.val # "ok"
            /\ UNCHANGED <<wire, lpc, got, cb>> ]_vars

\* Thread l is inside the loop (it has passed the Some test and not left).
Active(l) == lpc[l] \in {"check", "recv", "got"}

\* C12 as stated: in nanomsg.rs the socket.recv() of send() is never in flight
\* together with the socket.recv() of a receive loop on the same socket.
C12_SendLoopSerialized ==
    build = "nanomsg" =>
        ~ \E l \in Loops : mpc = "send_recv" /\ lpc[l] = "recv" /\ lsock[l] = socket

\* C13 as stated: in nanomsg.rs no socket ever has two receive loops inside
\* the loop at the same time.
C13_OneLoopPerHandle ==
    build = "nanomsg" =>
        \A h \in Handles : Cardinality({l \in Loops : Active(l) /\ lsock[l] = h}) <= 1

\* C14 as stated: in nanomsg.rs, once close() has run on a connected session
\* (is_closing is set), no connect() makes the session connected again.
C14_SingleUse ==
    [][ (build = "nanomsg" /\ is_closing /\ Called("connect")) => ~is_connect' ]_vars

\* The step is send() returning from its reply receive.
SendReturns == mpc = "send_recv" /\ mpc' = "idle"

\* C15 as stated: in nanomsg.rs, send(p) to a peer that echoes the request
\* (the echo being the only message any peer has sent so far) returns exactly
\* p whenever the transport reports no error of its own, also while a receive
\* loop runs on the session.
C15_RoundTrip ==
    [][ (build = "nanomsg" /\ SendReturns /\ mecho /\ nsent = 1
            /\ ret'.val # "Receive error") =>
            ret' = Ret("send", "ok", ret.data) ]_vars

\* C16: a send() call on a connected session makes exactly one transport
\* send; when that succeeds it makes exactly one transport receive and
\* returns the bytes or the error of that receive; when it fails it makes no
\* receive and returns the send error.  Socket and url (hence is_connect())
\* are the same after the call as before it.
C16_SendFrame ==
    /\ []((ret.op = "send" /\ ret.val # "Socket not connected") =>
            /\ is_connect
            /\ io = (IF mpc = "send_recv" \/ ret.val = "Send error"
                     THEN <<"send">> ELSE <<"send", "recv">>))
    /\ [][ (Called("send") /\ is_connect) =>
             /\ UNCHANGED <<socket, url>>
             /\ IF mpc' = "send_recv"
                THEN ret'.val = "pending"
                ELSE mpc' = "idle" /\ ret' = Ret("send", "Send error", 0) ]_vars
    /\ [][ SendReturns =>
             /\ UNCHANGED <<socket, url>>
             /\ IF hqueue' # hqueue
                THEN /\ ret' = Ret("send", "ok", Head(hqueue[socket]))
                     /\ hqueue' = [hqueue EXCEPT ![socket] = Tail(@)]
                ELSE ret' \in {Ret("send", "Receive timeout", 0),
                               Ret("send", "Receive error", 0)} ]_vars

\* send() has returned the timeout of its one receive; the session is as before
C16_Witness ==
    /\ ret = Ret("send", "Receive timeout", 0)
    /\ io = <<"send", "recv">>
    /\ is_connect
    /\ url # None

\* C17 as stated: in nanomsg.rs, under fair scheduling and with every
\* socket.recv() returning, a receive loop that is running when a close()
\* issued after its recv() has returned eventually exits.
C17_LoopsExit ==
    \A l \in Loops : (build = "nanomsg" /\ lclosed[l]) ~> (lpc[l] = "done")

\* C18: in nanomsg.rs is_closing is already true whenever a socket that a
\* running thread holds is closed (close() stores it first), so a thread whose
\* socket.recv() fails with Closed returns from the match at once and never
\* calls socket.recv() on that socket again.
C18_ClosingBeforeClose ==
    /\ [](build = "nanomsg" =>
            \A l \in Loops :
                (lpc[l] \in Live /\ lsock[l] # None /\ hstate[lsock[l]] = "closed")
                    => is_closing)
    /\ [][ \A l \in Loops :
             (build = "nanomsg" /\ Matched(l) /\ lres[l] = "closed") =>
                 lpc'[l] = "done" /\ is_closing ]_vars

\* the only thread started after close() had cleared receiving, set it again,
\* and left on the Closed error of its first receive
C18_Witness ==
    /\ build = "nanomsg"
    /\ receiving
    /\ \E l \in Loops : /\ lpc[l] = "done" /\ lres[l] = "closed"
                        /\ \A k \in Loops \ {l} : lpc[k] = "none"

\* A close() is in progress.
Closing == mpc \in {"close_closing", "close_socket"}

\* C19: in nanomsg.rs is_closing is true once close() has closed a connected
\* session and is never cleared, not by a later successful connect() either;
\* so in a session connected again, with no close() in progress, a thread
\* returns without a callback call on its first receive error other than a
\* timeout.
C19_ClosingNeverReset ==
    /\ []((build = "nanomsg" /\ ret.op = "close" /\ ret.val = "closed") => is_closing)
    /\ [][ is_closing => is_closing' ]_vars
    /\ [][ \A l \in Loops :
             (build = "nanomsg" /\ Matched(l) /\ lres[l] = "other"
                 /\ is_closing /\ is_connect /\ ~Closing) =>
                 lpc'[l] = "done" /\ cb'[l] = cb[l] ]_vars

\* connect, close, connect, recv: the only thread has left on a transport
\* error of the reconnected session
C19_Witness ==
    /\ build = "nanomsg"
    /\ is_closing /\ is_connect /\ ret.op = "recv"
    /\ \E l \in Loops : /\ lpc[l] = "done" /\ lres[l] = "other" /\ cb[l] = <<>>
                        /\ \A k \in Loops \ {l} : lpc[k] = "none"

\* The step is a successful connect() on a connected session.
Reconnected == Called("connect") /\ ret'.val = "ok" /\ is_connect

\* C20: in nanomsg.rs a successful connect() on a connected session stores a
\* new socket and the url and leaves receiving, is_closing and every thread
\* (position and socket clone) alone; a thread never changes the socket it
\* holds and takes messages from that socket only; while a thread holds a
\* socket (until the thread ends) nothing closes it but a close() that took
\* that very socket, and close() closes no other socket than the one it took.
C20_LoopBoundToHandle ==
    /\ [][ (build = "nanomsg" /\ Reconnected) =>
             /\ socket' \notin {None, socket}
             /\ url' # None
             /\ UNCHANGED <<receiving, is_closing, lpc, lsock>> ]_vars
    /\ [][ \A l \in Loops : build = "nanomsg" =>
             /\ lpc[l] # "none" => lsock'[l] \in {lsock[l], None}
             /\ (lpc[l] = "recv" /\ lpc'[l] = "got") =>
                    \A h \in Handles \ {lsock[l]} : hqueue'[h] = hqueue[h]
             /\ (lpc[l] \in Live /\ lpc'[l] \in Live /\ lsock[l] # None
                   /\ hstate[lsock[l]] = "open" /\ hstate'[lsock[l]] = "closed") =>
                    mpc = "close_socket" /\ mloc = lsock[l] ]_vars
    /\ [][ (build = "nanomsg" /\ mpc = "close_socket" /\ mpc' = "idle") =>
             \A h \in Handles \ {mloc} : hstate'[h] = hstate[h] ]_vars

\* after connect, recv, connect, close: the close returned, the new socket is
\* closed, and the thread is receiving from the old one, still open
C20_Witness ==
    /\ build = "nanomsg"
    /\ ret = Ret("close", "closed", 0)
    /\ \E l \in Loops, h \in Handles :
          /\ lpc[l] = "recv" /\ hstate[lsock[l]] = "open"
          /\ h > lsock[l] /\ hstate[h] = "closed"

====
